---- MODULE Spec2Model ----
(***************************************************************************)
(* Travel Planner backend: the relational store (models.py) and the        *)
(* request handlers (main.py) as a state machine.                          *)
(*                                                                         *)
(* One variable per table, one action per handler.  A handler runs to     *)
(* completion in one step: its session is private to the request           *)
(* (db.py get_db_session), so the store changes only at db.commit().       *)
(*                                                                         *)
(* UUID primary keys are numbered per table in order of allocation and    *)
(* are never reused.  created_at (server_default now()) is the position   *)
(* of the insert in its table.  Money (Numeric(12, 2)) is counted in      *)
(* minor units.  Optional values are None or Some(v).                     *)
(*                                                                         *)
(* resp is the response of the request being served, and before is the    *)
(* store as that request found it (a history variable).                   *)
(*                                                                         *)
(* sessions holds the requests that are served step by step, each in its  *)
(* own database session, to interleave them: the reads of the handler     *)
(* first, its commit later.  Every other request runs between two steps   *)
(* of these.                                                               *)
(***************************************************************************)
EXTENDS Integers, Sequences, FiniteSets, TLC

VARIABLES users, trips, destinations, days, accommodations, activities,
          notes, categories, expenses, seq, resp, before, sessions

store == <<users, trips, destinations, days, accommodations, activities,
           notes, categories, expenses>>

vars == <<users, trips, destinations, days, accommodations, activities,
          notes, categories, expenses, seq, resp, before, sessions>>

----------------------------------------------------------------------------
(* Bounds of the model. *)

(* Rows ever created by a run of the budget tracker (trips, categories,  *)
(* expenses), and by a run of the whole service (every table).          *)
MaxBudgetRows == 5
MaxRows == 5

(* Rows ever created by a run of the input boundary (trips, categories,  *)
(* expenses).                                                            *)
MaxInputRows == 3

(* Rows ever created by a run of the concurrent requests (trips,         *)
(* categories).                                                          *)
MaxConcurrentRows == 3
MaxRaceRows == 3

----------------------------------------------------------------------------
(* Optional[...] values. *)

None == <<>>
Some(v) == <<v>>

(* getattr of a payload of which only the fields sent are recorded: a    *)
(* field that was not sent has its default, None.                       *)
attr(payload, k) == IF k \in DOMAIN payload THEN payload[k] ELSE None

(* Tables. *)
Tables == {"users", "trips", "destinations", "days", "accommodations",
           "activities", "notes", "categories", "expenses"}

(* Request payload domains. *)
Emails == {"alex@example.com", "sam@example.com"}
CategoryNames == {"Food", "Lodging"}
PlannedAmounts == {0, 6000}
ExpenseAmounts == {3000, 5000}
TripNames == {"Japan Spring 2026"}

----------------------------------------------------------------------------
(* Strings that are inspected character by character are sequences of     *)
(* characters; the currency codes are.                                    *)

Letters == {"U", "S", "D", "T", "E", "R", "u", "s", "d", "e", "r"}

(* str.upper(), character by character. *)
upper_char(c) ==
  CASE c = "u" -> "U" [] c = "s" -> "S" [] c = "d" -> "D"
    [] c = "e" -> "E" [] c = "r" -> "R" [] OTHER -> c

str_upper(s) == [i \in 1..Len(s) |-> upper_char(s[i])]

(* str.isalpha(): not empty, and every character a letter. *)
str_isalpha(s) == s # <<>> /\ \A i \in 1..Len(s) : s[i] \in Letters

RECURSIVE str_lstrip(_)
str_lstrip(s) == IF s # <<>> /\ Head(s) = " " THEN str_lstrip(Tail(s)) ELSE s

RECURSIVE str_rstrip(_)
str_rstrip(s) ==
  IF s # <<>> /\ s[Len(s)] = " " THEN str_rstrip(SubSeq(s, 1, Len(s) - 1)) ELSE s

(* str.strip(). *)
str_strip(s) == str_rstrip(str_lstrip(s))

USD == <<"U", "S", "D">>

(* Currency codes sent: a code in lower case, one padded with a blank,   *)
(* one too short, one too long.                                         *)
CurrencyCodes == {<<"e", "u", "r">>, <<"u", "s", "d", " ">>, <<"U", "S">>,
                  <<"U", "S", "D", "T">>}
Colors == {"#3b82f6"}

----------------------------------------------------------------------------
(* SQL helpers. *)

RECURSIVE SumOf(_, _)
(* The exact sum of field f over a set of rows. *)
SumOf(S, f) ==
  IF S = {} THEN 0
  ELSE LET r == CHOOSE x \in S : TRUE IN r[f] + SumOf(S \ {r}, f)

(* SUM(col): NULL over no rows. *)
sa_func_sum(S, f) == IF S = {} THEN None ELSE Some(SumOf(S, f))

(* COALESCE(x, d). *)
sa_func_coalesce(x, d) == IF x = None THEN d ELSE x[1]

(* All enumerations of a finite set, each row once. *)
Enumerations(S) ==
  {s \in [1..Cardinality(S) -> S] : \A i, j \in 1..Cardinality(S) : s[i] = s[j] => i = j}

(* ORDER BY created_at ASC / DESC: the results a query may return.  Keys are *)
(* distinct within a table, so there is one.                                 *)
(* Mutant of OrderByCreatedAsc: ORDER BY name. *)
OrderByName(S) ==
  {s \in Enumerations(S) : \A i, j \in 1..Len(s) : i < j => s[i].name # "Food" \/ s[j].name = "Food"}

OrderByCreatedAsc(S) ==
  {s \in Enumerations(S) : \A i, j \in 1..Len(s) : i < j => s[i].created_at <= s[j].created_at}

OrderByCreatedDesc(S) ==
  {s \in Enumerations(S) : \A i, j \in 1..Len(s) : i < j => s[i].created_at >= s[j].created_at}

(* db.get(Model, id): the row or None. *)
db_get(table, id) ==
  IF \E r \in table : r.id = id THEN Some(CHOOSE r \in table : r.id = id) ELSE None

----------------------------------------------------------------------------
(* Constraints of the schema (models.py). *)

(* users.email: unique=True. *)
uq_users_email(us) ==
  \A a, b \in us : a.email = b.email => a.id = b.id

(* UniqueConstraint("trip_id", "day_date"). *)
uq_itinerary_days_trip_day_date(ds) ==
  \A a, b \in ds : (a.trip_id = b.trip_id /\ a.day_date = b.day_date) => a.id = b.id

(* Mutant of uq_budget_categories_trip_name: the constraint names the   *)
(* columns (trip_id, id), which no two rows share.                     *)
uq_budget_categories_trip_id(cs) ==
  \A a, b \in cs : (a.trip_id = b.trip_id /\ a.id = b.id) => a.id = b.id

(* UniqueConstraint("trip_id", "name"). *)
uq_budget_categories_trip_name(cs) ==
  \A a, b \in cs : (a.trip_id = b.trip_id /\ a.name = b.name) => a.id = b.id

(* A nullable foreign key: NULL or the id of a row of the table. *)
fk_ok(ref, table) == ref = None \/ \E r \in table : r.id = ref[1]

----------------------------------------------------------------------------
(* Responses. *)

(* commit_failed and rolled_back tell how the handler left its session:  *)
(* db.commit() raised, and db.rollback() was called.                      *)
Response(op, trip_id, arg, status, body) ==
  [op |-> op, trip_id |-> trip_id, arg |-> arg, status |-> status, body |-> body,
   commit_failed |-> FALSE, rolled_back |-> FALSE, lookups |-> <<>>]

(* except IntegrityError: db.rollback(), then the HTTPException. *)
RolledBack(response) ==
  [response EXCEPT !.commit_failed = TRUE, !.rolled_back = TRUE]

(* db.commit() outside a try: the IntegrityError leaves the handler. *)
Unhandled(response) == [response EXCEPT !.commit_failed = TRUE]

(* The category-name queries the handler issued, each the IN set it asked for. *)
Looked(response, queries) == [response EXCEPT !.lookups = queries]

(* The trip is looked up before the payload is read. *)
TripNotFound(op, trip_id) == Response(op, trip_id, None, 404, "Trip not found")

TripExists(trip_id) == db_get(trips, trip_id) # None

(* Mutant of owned_by_trip: the row's trip is not compared. *)
owned_by_trip_any(found, trip_id) == found # None

(* `if not row or row.trip_id != trip_id` fails: the row is the trip's. *)
owned_by_trip(found, trip_id) == found # None /\ found[1].trip_id = trip_id

(* _normalize_currency_code: Some(code), stripped and in upper case, or    *)
(* None where it raises ValueError.                                       *)
normalize_currency_code(code) ==
  LET c == str_upper(str_strip(code))
  IN IF Len(c) # 3 \/ ~str_isalpha(c) THEN None ELSE Some(c)

(* TripCreate: currency_code defaults to "USD" (a default is not          *)
(* validated) and is normalized when sent.  Some(payload), or None where  *)
(* validation fails.                                                      *)
TripCreate_validate(raw) ==
  IF raw.currency_code = None
  THEN Some([raw EXCEPT !.currency_code = USD])
  ELSE IF normalize_currency_code(raw.currency_code[1]) = None
  THEN None
  ELSE Some([raw EXCEPT !.currency_code = normalize_currency_code(@[1])[1]])

(* TripUpdate, BudgetExpenseCreate: validate_currency_code returns None  *)
(* for None and the normalized code otherwise.                           *)
validate_currency_code(raw) ==
  IF attr(raw, "currency_code") = None
  THEN Some(raw)
  ELSE IF normalize_currency_code(raw.currency_code[1]) = None
  THEN None
  ELSE Some([raw EXCEPT !.currency_code = normalize_currency_code(@[1])])

TripUpdate_validate(raw) == validate_currency_code(raw)

BudgetExpenseCreate_validate(raw) == validate_currency_code(raw)

(* The body of a request is validated before the handler is called: a    *)
(* body that fails is answered 422 and the handler does not run.         *)
request_body(op, trip_id, raw, parsed, handled) ==
  IF parsed = None
  THEN /\ resp' = Response(op, trip_id, raw, 422,
                           "currency_code must be a 3-letter ISO-4217 code")
       /\ UNCHANGED <<store, seq>>
  ELSE handled

(* No request is being served. *)
NoResponse == Response("none", 0, None, 0, None)

Idle == resp = NoResponse

(* A request arrives: the store it finds is remembered. *)
Request == Idle /\ before' = store /\ UNCHANGED sessions

(* The two requests that are served step by step. *)
Sessions == {"a", "b"}

(* A session: where its handler is (pc), what it was called with, and its *)
(* response.  peers and free are history: the sessions that had passed    *)
(* their check and not yet committed when this one made its check, and    *)
(* whether the name it sends was free in its trip at that moment.         *)
NoSession ==
  [pc |-> "none", trip_id |-> 0, payload |-> None, status |-> 0, body |-> None,
   peers |-> {}, free |-> FALSE]

Init ==
  /\ users = {} /\ trips = {} /\ destinations = {} /\ days = {}
  /\ accommodations = {} /\ activities = {} /\ notes = {}
  /\ categories = {} /\ expenses = {}
  /\ seq = [t \in Tables |-> 0]
  /\ resp = NoResponse
  /\ before = None
  /\ sessions = [s \in Sessions |-> NoSession]

----------------------------------------------------------------------------
(* Foreign keys with ON DELETE actions (models.py). *)

(* ondelete="CASCADE": the rows that survive the deletion of `gone`. *)
OnDeleteCascade(rows, f, gone) == {r \in rows : r[f] \notin gone}

(* Mutant of OnDeleteSetNull: the foreign key cascades the delete. *)
OnDeleteSetNull_cascade(rows, f, gone) ==
  {r \in rows : r[f] = None \/ r[f][1] \notin gone}

(* Mutant of OnDeleteSetNull: the references are left as they are. *)
OnDeleteSetNull_dangling(rows, f, gone) == rows

(* ondelete="SET NULL": references to `gone` are cleared, the rows stay. *)
OnDeleteSetNull(rows, f, gone) ==
  {IF r[f] # None /\ r[f][1] \in gone THEN [r EXCEPT ![f] = None] ELSE r : r \in rows}

IdsOf(rows) == {r.id : r \in rows}

OwnedBy(rows, trip_id) == {r \in rows : r.trip_id = trip_id}

----------------------------------------------------------------------------
(* Users and trips. *)

(* Mutant of create_user: the row is written before the duplicate is seen. *)
create_user_persisted(payload) ==
  LET user == [id |-> seq.users + 1, email |-> payload.email,
               created_at |-> seq.users + 1]
  IN /\ users' = users \cup {user}
     /\ seq' = [seq EXCEPT !.users = @ + 1]
     /\ resp' = IF ~uq_users_email(users \cup {user})
                THEN RolledBack(Response("create_user", 0, payload, 409, "Email already exists"))
                ELSE Response("create_user", 0, payload, 201, user)
     /\ UNCHANGED <<trips, destinations, days, accommodations, activities,
                    notes, categories, expenses>>

create_user(payload) ==
  LET user == [id |-> seq.users + 1, email |-> payload.email,
               created_at |-> seq.users + 1]
  IN IF ~uq_users_email(users \cup {user})
     THEN /\ resp' = RolledBack(Response("create_user", 0, payload, 409, "Email already exists"))
          /\ UNCHANGED <<store, seq>>
     ELSE /\ users' = users \cup {user}
          /\ seq' = [seq EXCEPT !.users = @ + 1]
          /\ resp' = Response("create_user", 0, payload, 201, user)
          /\ UNCHANGED <<trips, destinations, days, accommodations, activities,
                         notes, categories, expenses>>

(* Trip(...) is built from user_id, name, start_date and end_date:        *)
(* currency_code is left to the column default, "USD".                   *)
create_trip(payload) ==
  IF db_get(users, payload.user_id) = None
  THEN /\ resp' = Response("create_trip", 0, payload, 404, "User not found")
       /\ UNCHANGED <<store, seq>>
  ELSE LET trip == [id |-> seq.trips + 1, user_id |-> payload.user_id,
                    name |-> payload.name, start_date |-> payload.start_date,
                    end_date |-> payload.end_date, currency_code |-> USD,
                    created_at |-> seq.trips + 1]
       IN /\ trips' = trips \cup {trip}
          /\ seq' = [seq EXCEPT !.trips = @ + 1]
          /\ resp' = Response("create_trip", 0, payload, 201, trip)
          /\ UNCHANGED <<users, destinations, days, accommodations, activities,
                         notes, categories, expenses>>

(* Mutant of list_trips: the user_id filter is not applied. *)
list_trips_unfiltered(user_id) ==
  /\ \E rows \in OrderByCreatedDesc(trips) :
       resp' = Response("list_trips", 0, user_id, 200, rows)
  /\ UNCHANGED <<store, seq>>

(* select(Trip).order_by(created_at.desc()), with .where(user_id == ...)  *)
(* when a user_id is given.                                              *)
list_trips(user_id) ==
  /\ \E rows \in OrderByCreatedDesc(
                  IF user_id # None THEN {t \in trips : t.user_id = user_id[1]}
                  ELSE trips) :
       resp' = Response("list_trips", 0, user_id, 200, rows)
  /\ UNCHANGED <<store, seq>>

get_trip(trip_id) ==
  /\ resp' = IF ~TripExists(trip_id)
             THEN TripNotFound("get_trip", trip_id)
             ELSE Response("get_trip", trip_id, None, 200, db_get(trips, trip_id)[1])
  /\ UNCHANGED <<store, seq>>

(* name, start_date and end_date are assigned when they are not None;     *)
(* payload.currency_code is not read.                                     *)
update_trip(trip_id, payload) ==
  IF ~TripExists(trip_id)
  THEN /\ resp' = TripNotFound("update_trip", trip_id)
       /\ UNCHANGED <<store, seq>>
  ELSE LET old == db_get(trips, trip_id)[1]
           trip == [old EXCEPT
                      !.name = IF attr(payload, "name") # None
                               THEN payload.name[1] ELSE @,
                      !.start_date = IF attr(payload, "start_date") # None
                                     THEN payload.start_date ELSE @,
                      !.end_date = IF attr(payload, "end_date") # None
                                   THEN payload.end_date ELSE @]
       IN /\ trips' = (trips \ {old}) \cup {trip}
          /\ resp' = Response("update_trip", trip_id, payload, 200, trip)
          /\ UNCHANGED <<users, destinations, days, accommodations, activities,
                         notes, categories, expenses, seq>>

(* db.delete(trip): the ORM deletes the trip's children (cascade="all,      *)
(* delete-orphan"), and the database applies ON DELETE SET NULL to every   *)
(* row that references a deleted destination, day or category.             *)
(* The DELETE of the trip as the database applies it: the ORM deletes the   *)
(* children it loaded, ON DELETE CASCADE the others, and ON DELETE SET     *)
(* NULL clears the references to the deleted destinations, days and        *)
(* categories.                                                             *)
delete_trip_cascade(trip_id) ==
  LET gone == {trip_id}
      goneDest == IdsOf(OwnedBy(destinations, trip_id))
      goneDays == IdsOf(OwnedBy(days, trip_id))
      goneCats == IdsOf(OwnedBy(categories, trip_id))
  IN /\ trips' = {t \in trips : t.id # trip_id}
     /\ destinations' = OnDeleteCascade(destinations, "trip_id", gone)
     /\ days' = OnDeleteCascade(days, "trip_id", gone)
     /\ accommodations' =
          OnDeleteSetNull(OnDeleteCascade(accommodations, "trip_id", gone),
                          "destination_id", goneDest)
     /\ activities' =
          OnDeleteSetNull(
            OnDeleteSetNull(OnDeleteCascade(activities, "trip_id", gone),
                            "destination_id", goneDest),
            "day_id", goneDays)
     /\ notes' =
          OnDeleteSetNull(
            OnDeleteSetNull(OnDeleteCascade(notes, "trip_id", gone),
                            "destination_id", goneDest),
            "day_id", goneDays)
     /\ categories' = OnDeleteCascade(categories, "trip_id", gone)
     /\ expenses' =
          OnDeleteSetNull(OnDeleteCascade(expenses, "trip_id", gone),
                          "category_id", goneCats)
     /\ UNCHANGED <<users, seq>>

delete_trip(trip_id) ==
  IF ~TripExists(trip_id)
  THEN /\ resp' = TripNotFound("delete_trip", trip_id)
       /\ UNCHANGED <<store, seq>>
  ELSE /\ delete_trip_cascade(trip_id)
       /\ resp' = Response("delete_trip", trip_id, None, 200, "Trip deleted")

(* delete_trip, step by step: db.get(Trip, trip_id) and db.delete(trip). *)
delete_trip_check(s, trip_id) ==
  /\ sessions[s].pc = "none"
  /\ sessions' =
       [sessions EXCEPT ![s] =
          IF ~TripExists(trip_id)
          THEN [NoSession EXCEPT !.pc = "done", !.trip_id = trip_id,
                                 !.status = 404, !.body = "Trip not found"]
          ELSE [NoSession EXCEPT !.pc = "trip_deleted", !.trip_id = trip_id]]
  /\ UNCHANGED <<store, seq, resp, before>>

(* db.commit(): the DELETEs are flushed and committed over the rows that  *)
(* are committed by then.  A trip that another request deleted meanwhile  *)
(* matches no row, which the ORM reports as a warning only.               *)
delete_trip_commit(s) ==
  /\ sessions[s].pc = "trip_deleted"
  /\ IF TripExists(sessions[s].trip_id)
     THEN delete_trip_cascade(sessions[s].trip_id)
     ELSE UNCHANGED <<store, seq>>
  /\ sessions' = [sessions EXCEPT ![s].pc = "done", ![s].status = 200,
                                  ![s].body = "Trip deleted"]
  /\ UNCHANGED <<resp, before>>

----------------------------------------------------------------------------
(* Destinations, itinerary days, accommodations, activities, notes. *)

(* Mutant of add_destination: the trip is not looked up. *)
add_destination_unchecked(trip_id, payload) ==
  LET dest == [id |-> seq.destinations + 1, trip_id |-> trip_id,
               sort_order |-> payload.sort_order,
               created_at |-> seq.destinations + 1]
  IN /\ destinations' = destinations \cup {dest}
     /\ seq' = [seq EXCEPT !.destinations = @ + 1]
     /\ resp' = Response("add_destination", trip_id, payload, 201, dest)
     /\ UNCHANGED <<users, trips, days, accommodations, activities, notes,
                    categories, expenses>>

add_destination(trip_id, payload) ==
  IF ~TripExists(trip_id)
  THEN /\ resp' = TripNotFound("add_destination", trip_id)
       /\ UNCHANGED <<store, seq>>
  ELSE LET dest == [id |-> seq.destinations + 1, trip_id |-> trip_id,
                    sort_order |-> payload.sort_order,
                    created_at |-> seq.destinations + 1]
       IN /\ destinations' = destinations \cup {dest}
          /\ seq' = [seq EXCEPT !.destinations = @ + 1]
          /\ resp' = Response("add_destination", trip_id, payload, 201, dest)
          /\ UNCHANGED <<users, trips, days, accommodations, activities, notes,
                         categories, expenses>>

(* add_destination, step by step: db.get(Trip, trip_id) and db.add(dest). *)
add_destination_check(s, trip_id, payload) ==
  /\ sessions[s].pc = "none"
  /\ sessions' =
       [sessions EXCEPT ![s] =
          IF ~TripExists(trip_id)
          THEN [NoSession EXCEPT !.pc = "done", !.trip_id = trip_id,
                                 !.status = 404, !.body = "Trip not found"]
          ELSE [NoSession EXCEPT !.pc = "destination_added", !.trip_id = trip_id,
                                 !.payload = payload]]
  /\ UNCHANGED <<store, seq, resp, before>>

(* Mutant of add_destination_commit: trip_id is not a foreign key. *)
add_destination_commit_unconstrained(s) ==
  /\ sessions[s].pc = "destination_added"
  /\ LET dest == [id |-> seq.destinations + 1, trip_id |-> sessions[s].trip_id,
                  sort_order |-> sessions[s].payload.sort_order,
                  created_at |-> seq.destinations + 1]
     IN /\ destinations' = destinations \cup {dest}
        /\ seq' = [seq EXCEPT !.destinations = @ + 1]
        /\ sessions' = [sessions EXCEPT ![s].pc = "done", ![s].status = 201,
                                        ![s].body = dest]
        /\ UNCHANGED <<users, trips, days, accommodations, activities, notes,
                       categories, expenses>>
  /\ UNCHANGED <<resp, before>>

(* db.commit(): the INSERT is flushed and committed.  The database checks *)
(* the foreign key to trips against the rows committed by then; the       *)
(* IntegrityError is not caught and the request ends as a 500.            *)
add_destination_commit(s) ==
  /\ sessions[s].pc = "destination_added"
  /\ LET dest == [id |-> seq.destinations + 1, trip_id |-> sessions[s].trip_id,
                  sort_order |-> sessions[s].payload.sort_order,
                  created_at |-> seq.destinations + 1]
     IN IF ~fk_ok(Some(dest.trip_id), trips)
        THEN /\ sessions' = [sessions EXCEPT ![s].pc = "done", ![s].status = 500,
                                             ![s].body = "IntegrityError"]
             /\ UNCHANGED <<store, seq>>
        ELSE /\ destinations' = destinations \cup {dest}
             /\ seq' = [seq EXCEPT !.destinations = @ + 1]
             /\ sessions' = [sessions EXCEPT ![s].pc = "done", ![s].status = 201,
                                             ![s].body = dest]
             /\ UNCHANGED <<users, trips, days, accommodations, activities, notes,
                            categories, expenses>>
  /\ UNCHANGED <<resp, before>>

(* ORDER BY sort_order ASC: rows of equal sort_order come in any order. *)
list_destinations(trip_id) ==
  /\ IF ~TripExists(trip_id)
     THEN resp' = TripNotFound("list_destinations", trip_id)
     ELSE \E rows \in {s \in Enumerations(OwnedBy(destinations, trip_id)) :
                         \A i, j \in 1..Len(s) : i < j => s[i].sort_order <= s[j].sort_order} :
            resp' = Response("list_destinations", trip_id, None, 200, rows)
  /\ UNCHANGED <<store, seq>>

create_itinerary_day(trip_id, payload) ==
  IF ~TripExists(trip_id)
  THEN /\ resp' = TripNotFound("create_itinerary_day", trip_id)
       /\ UNCHANGED <<store, seq>>
  ELSE LET day == [id |-> seq.days + 1, trip_id |-> trip_id,
                   day_date |-> payload.day_date, created_at |-> seq.days + 1]
       IN IF ~uq_itinerary_days_trip_day_date(days \cup {day})
          THEN /\ resp' = RolledBack(Response("create_itinerary_day", trip_id, payload, 409,
                                   "Itinerary day already exists for this date"))
               /\ UNCHANGED <<store, seq>>
          ELSE /\ days' = days \cup {day}
               /\ seq' = [seq EXCEPT !.days = @ + 1]
               /\ resp' = Response("create_itinerary_day", trip_id, payload, 201, day)
               /\ UNCHANGED <<users, trips, destinations, accommodations, activities,
                              notes, categories, expenses>>

list_itinerary_days(trip_id) ==
  /\ IF ~TripExists(trip_id)
     THEN resp' = TripNotFound("list_itinerary_days", trip_id)
     ELSE \E rows \in {s \in Enumerations(OwnedBy(days, trip_id)) :
                         \A i, j \in 1..Len(s) : i < j => s[i].day_date <= s[j].day_date} :
            resp' = Response("list_itinerary_days", trip_id, None, 200, rows)
  /\ UNCHANGED <<store, seq>>

(* The commit is not guarded: a foreign-key violation leaves the handler as *)
(* an unhandled IntegrityError (a 500), and closing the session discards    *)
(* the pending insert.                                                      *)
create_accommodation(trip_id, payload) ==
  IF ~TripExists(trip_id)
  THEN /\ resp' = TripNotFound("create_accommodation", trip_id)
       /\ UNCHANGED <<store, seq>>
  ELSE LET acc == [id |-> seq.accommodations + 1, trip_id |-> trip_id,
                   destination_id |-> payload.destination_id,
                   created_at |-> seq.accommodations + 1]
       IN IF ~fk_ok(acc.destination_id, destinations)
          THEN /\ resp' = Unhandled(Response("create_accommodation", trip_id, payload, 500,
                                   "IntegrityError"))
               /\ UNCHANGED <<store, seq>>
          ELSE /\ accommodations' = accommodations \cup {acc}
               /\ seq' = [seq EXCEPT !.accommodations = @ + 1]
               /\ resp' = Response("create_accommodation", trip_id, payload, 201, acc)
               /\ UNCHANGED <<users, trips, destinations, days, activities, notes,
                              categories, expenses>>

list_accommodations(trip_id) ==
  /\ IF ~TripExists(trip_id)
     THEN resp' = TripNotFound("list_accommodations", trip_id)
     ELSE \E rows \in OrderByCreatedDesc(OwnedBy(accommodations, trip_id)) :
            resp' = Response("list_accommodations", trip_id, None, 200, rows)
  /\ UNCHANGED <<store, seq>>

create_activity(trip_id, payload) ==
  IF ~TripExists(trip_id)
  THEN /\ resp' = TripNotFound("create_activity", trip_id)
       /\ UNCHANGED <<store, seq>>
  ELSE LET act == [id |-> seq.activities + 1, trip_id |-> trip_id,
                   destination_id |-> payload.destination_id,
                   day_id |-> payload.day_id,
                   created_at |-> seq.activities + 1]
       IN IF ~(fk_ok(act.destination_id, destinations) /\ fk_ok(act.day_id, days))
          THEN /\ resp' = Unhandled(Response("create_activity", trip_id, payload, 500,
                                   "IntegrityError"))
               /\ UNCHANGED <<store, seq>>
          ELSE /\ activities' = activities \cup {act}
               /\ seq' = [seq EXCEPT !.activities = @ + 1]
               /\ resp' = Response("create_activity", trip_id, payload, 201, act)
               /\ UNCHANGED <<users, trips, destinations, days, accommodations, notes,
                              categories, expenses>>

list_activities(trip_id) ==
  /\ IF ~TripExists(trip_id)
     THEN resp' = TripNotFound("list_activities", trip_id)
     ELSE \E rows \in OrderByCreatedDesc(OwnedBy(activities, trip_id)) :
            resp' = Response("list_activities", trip_id, None, 200, rows)
  /\ UNCHANGED <<store, seq>>

create_note(trip_id, payload) ==
  IF ~TripExists(trip_id)
  THEN /\ resp' = TripNotFound("create_note", trip_id)
       /\ UNCHANGED <<store, seq>>
  ELSE LET note == [id |-> seq.notes + 1, trip_id |-> trip_id,
                    destination_id |-> payload.destination_id,
                    day_id |-> payload.day_id,
                    created_at |-> seq.notes + 1]
       IN IF ~(fk_ok(note.destination_id, destinations) /\ fk_ok(note.day_id, days))
          THEN /\ resp' = Unhandled(Response("create_note", trip_id, payload, 500, "IntegrityError"))
               /\ UNCHANGED <<store, seq>>
          ELSE /\ notes' = notes \cup {note}
               /\ seq' = [seq EXCEPT !.notes = @ + 1]
               /\ resp' = Response("create_note", trip_id, payload, 201, note)
               /\ UNCHANGED <<users, trips, destinations, days, accommodations,
                              activities, categories, expenses>>

(* ORDER BY updated_at DESC, created_at DESC: no handler updates a note, so *)
(* updated_at is the insert time.                                          *)
list_notes(trip_id) ==
  /\ IF ~TripExists(trip_id)
     THEN resp' = TripNotFound("list_notes", trip_id)
     ELSE \E rows \in OrderByCreatedDesc(OwnedBy(notes, trip_id)) :
            resp' = Response("list_notes", trip_id, None, 200, rows)
  /\ UNCHANGED <<store, seq>>

----------------------------------------------------------------------------
(* Budget categories. *)

create_budget_category(trip_id, payload) ==
  IF ~TripExists(trip_id)
  THEN /\ resp' = TripNotFound("create_budget_category", trip_id)
       /\ UNCHANGED <<store, seq>>
  ELSE LET cat == [id |-> seq.categories + 1, trip_id |-> trip_id,
                   name |-> payload.name, planned_amount |-> payload.planned_amount,
                   color |-> payload.color, created_at |-> seq.categories + 1]
       IN IF ~uq_budget_categories_trip_name(categories \cup {cat})
          THEN /\ resp' = RolledBack(Response("create_budget_category", trip_id, payload, 409,
                                   "Category name already exists for this trip"))
               /\ UNCHANGED <<store, seq>>
          ELSE /\ categories' = categories \cup {cat}
               /\ seq' = [seq EXCEPT !.categories = @ + 1]
               /\ resp' = Response("create_budget_category", trip_id, payload, 201, cat)
               /\ UNCHANGED <<users, trips, destinations, days, accommodations,
                              activities, notes, expenses>>

list_budget_categories(trip_id) ==
  /\ IF ~TripExists(trip_id)
     THEN resp' = TripNotFound("list_budget_categories", trip_id)
     ELSE \E rows \in OrderByCreatedAsc(OwnedBy(categories, trip_id)) :
            resp' = Response("list_budget_categories", trip_id, None, 200, rows)
  /\ UNCHANGED <<store, seq>>

(* create_budget_category in a session of its own, up to db.add(cat): the *)
(* trip is read.                                                         *)
create_budget_category_check(s, trip_id, payload) ==
  /\ sessions[s].pc = "none"
  /\ sessions' =
       [sessions EXCEPT ![s] =
          IF ~TripExists(trip_id)
          THEN [NoSession EXCEPT !.pc = "done", !.trip_id = trip_id,
                                 !.status = 404, !.body = "Trip not found"]
          ELSE [NoSession EXCEPT
                  !.pc = "checked", !.trip_id = trip_id, !.payload = payload,
                  !.peers = {x \in Sessions \ {s} : sessions[x].pc = "checked"},
                  !.free = ~\E c \in categories :
                              c.trip_id = trip_id /\ c.name = payload.name]]
  /\ UNCHANGED <<store, seq, resp, before>>

(* Mutant of create_budget_category_commit: the table has no unique      *)
(* constraint on (trip_id, name).                                        *)
create_budget_category_commit_unconstrained(s) ==
  /\ sessions[s].pc = "checked"
  /\ LET cat == [id |-> seq.categories + 1, trip_id |-> sessions[s].trip_id,
                 name |-> sessions[s].payload.name,
                 planned_amount |-> sessions[s].payload.planned_amount,
                 color |-> sessions[s].payload.color,
                 created_at |-> seq.categories + 1]
     IN IF ~fk_ok(Some(cat.trip_id), trips)
        THEN /\ sessions' = [sessions EXCEPT ![s].pc = "done", ![s].status = 409,
                               ![s].body = "Category name already exists for this trip"]
             /\ UNCHANGED <<store, seq>>
        ELSE /\ categories' = categories \cup {cat}
             /\ seq' = [seq EXCEPT !.categories = @ + 1]
             /\ sessions' = [sessions EXCEPT ![s].pc = "done", ![s].status = 201,
                                             ![s].body = cat]
             /\ UNCHANGED <<users, trips, destinations, days, accommodations,
                            activities, notes, expenses>>
  /\ UNCHANGED <<resp, before>>

(* db.commit(): the INSERT is flushed and committed.  The database checks *)
(* the foreign key to trips and the unique constraint against the rows    *)
(* committed by then; an IntegrityError is rolled back and answered 409.  *)
create_budget_category_commit(s) ==
  /\ sessions[s].pc = "checked"
  /\ LET cat == [id |-> seq.categories + 1, trip_id |-> sessions[s].trip_id,
                 name |-> sessions[s].payload.name,
                 planned_amount |-> sessions[s].payload.planned_amount,
                 color |-> sessions[s].payload.color,
                 created_at |-> seq.categories + 1]
     IN IF ~fk_ok(Some(cat.trip_id), trips)
           \/ ~uq_budget_categories_trip_name(categories \cup {cat})
        THEN /\ sessions' = [sessions EXCEPT ![s].pc = "done", ![s].status = 409,
                               ![s].body = "Category name already exists for this trip"]
             /\ UNCHANGED <<store, seq>>
        ELSE /\ categories' = categories \cup {cat}
             /\ seq' = [seq EXCEPT !.categories = @ + 1]
             /\ sessions' = [sessions EXCEPT ![s].pc = "done", ![s].status = 201,
                                             ![s].body = cat]
             /\ UNCHANGED <<users, trips, destinations, days, accommodations,
                            activities, notes, expenses>>
  /\ UNCHANGED <<resp, before>>

(* The response is sent and the session closed (db.py get_db_session). *)
session_close(s) ==
  /\ sessions[s].pc = "done"
  /\ sessions' = [x \in Sessions |->
                    IF x = s THEN NoSession
                    ELSE [sessions[x] EXCEPT !.peers = @ \ {s}]]
  /\ UNCHANGED <<store, seq, resp, before>>

(* payload.model_dump(exclude_unset=True) then setattr: `data` maps each   *)
(* field the caller sent to Some(value), or to None for an explicit null.  *)
apply_update(cat, data) ==
  [k \in DOMAIN cat |-> IF k \in DOMAIN data THEN data[k] ELSE Some(cat[k])]

(* nullable=False on name and planned_amount. *)
category_not_null(upd) == upd.name # None /\ upd.planned_amount # None

update_budget_category(trip_id, category_id, payload) ==
  LET arg == [category_id |-> category_id, data |-> payload]
      found == db_get(categories, category_id)
  IN IF ~TripExists(trip_id)
     THEN /\ resp' = TripNotFound("update_budget_category", trip_id)
          /\ UNCHANGED <<store, seq>>
     ELSE IF ~owned_by_trip(found, trip_id)
     THEN /\ resp' = Response("update_budget_category", trip_id, arg, 404,
                              "Category not found")
          /\ UNCHANGED <<store, seq>>
     ELSE LET upd == apply_update(found[1], payload)
              cat == [found[1] EXCEPT !.name = upd.name[1],
                                      !.planned_amount = upd.planned_amount[1],
                                      !.color = IF "color" \in DOMAIN payload
                                                THEN payload.color ELSE @]
          IN IF ~category_not_null(upd)
                \/ ~uq_budget_categories_trip_name((categories \ {found[1]}) \cup {cat})
             THEN /\ resp' = RolledBack(Response("update_budget_category", trip_id, arg, 409,
                                      "Category name already exists for this trip"))
                  /\ UNCHANGED <<store, seq>>
             ELSE /\ categories' = (categories \ {found[1]}) \cup {cat}
                  /\ resp' = Response("update_budget_category", trip_id, arg, 200, cat)
                  /\ UNCHANGED <<users, trips, destinations, days, accommodations,
                                 activities, notes, expenses, seq>>

(* db.delete(cat): budget_expenses.category_id is ON DELETE SET NULL and   *)
(* the relationship does not cascade the delete (passive_deletes=True).    *)
delete_budget_category(trip_id, category_id) ==
  LET found == db_get(categories, category_id)
  IN IF ~TripExists(trip_id)
     THEN /\ resp' = TripNotFound("delete_budget_category", trip_id)
          /\ UNCHANGED <<store, seq>>
     ELSE IF ~owned_by_trip(found, trip_id)
     THEN /\ resp' = Response("delete_budget_category", trip_id, category_id, 404,
                              "Category not found")
          /\ UNCHANGED <<store, seq>>
     ELSE /\ categories' = categories \ {found[1]}
          /\ expenses' = OnDeleteSetNull(expenses, "category_id", {category_id})
          /\ resp' = Response("delete_budget_category", trip_id, category_id, 200,
                              "Category deleted")
          /\ UNCHANGED <<users, trips, destinations, days, accommodations,
                         activities, notes, seq>>

----------------------------------------------------------------------------
(* Budget expenses. *)

(* BudgetExpenseOut: the row and its denormalized category_name. *)
BudgetExpenseOut(exp, category_name) ==
  [id |-> exp.id, trip_id |-> exp.trip_id, category_id |-> exp.category_id,
   category_name |-> category_name, amount |-> exp.amount,
   currency_code |-> exp.currency_code, created_at |-> exp.created_at]

create_budget_expense(trip_id, payload) ==
  LET found == IF payload.category_id # None
               THEN db_get(categories, payload.category_id[1]) ELSE None
  IN IF ~TripExists(trip_id)
     THEN /\ resp' = TripNotFound("create_budget_expense", trip_id)
          /\ UNCHANGED <<store, seq>>
     ELSE IF payload.category_id # None /\ ~owned_by_trip(found, trip_id)
     THEN /\ resp' = Response("create_budget_expense", trip_id, payload, 404,
                              "Category not found")
          /\ UNCHANGED <<store, seq>>
     ELSE LET exp == [id |-> seq.expenses + 1, trip_id |-> trip_id,
                      category_id |-> payload.category_id, amount |-> payload.amount,
                      currency_code |-> payload.currency_code,
                      created_at |-> seq.expenses + 1]
              cat == IF exp.category_id # None
                     THEN db_get(categories, exp.category_id[1]) ELSE None
              cat_name == IF cat # None THEN Some(cat[1].name) ELSE None
          IN /\ expenses' = expenses \cup {exp}
             /\ seq' = [seq EXCEPT !.expenses = @ + 1]
             /\ resp' = Response("create_budget_expense", trip_id, payload, 201,
                                 BudgetExpenseOut(exp, cat_name))
             /\ UNCHANGED <<users, trips, destinations, days, accommodations,
                            activities, notes, categories>>

(* The batch lookup of list_budget_expenses: names.get(e.category_id). *)
(* Mutant of category_queries: one lookup for each expense with a category. *)
category_queries_per_row(rows) ==
  LET each[i \in 0..Len(rows)] ==
        IF i = 0 THEN <<>>
        ELSE IF rows[i].category_id # None
             THEN Append(each[i - 1], {rows[i].category_id[1]})
             ELSE each[i - 1]
  IN each[Len(rows)]

(* cat_ids, and under "if cat_ids:" the one select ... where id IN cat_ids. *)
category_queries(rows) ==
  LET cat_ids == {rows[i].category_id[1] :
                    i \in {j \in 1..Len(rows) : rows[j].category_id # None}}
  IN IF cat_ids # {} THEN <<cat_ids>> ELSE <<>>

category_names(exps, cats) ==
  LET cat_ids == {e.category_id[1] : e \in {x \in exps : x.category_id # None}}
      found == {c \in cats : c.id \in cat_ids}
  IN [i \in IdsOf(found) |-> (CHOOSE c \in found : c.id = i).name]

(* Mutant of expenses_out: the names are not looked up. *)
expenses_out_unnamed(rows, cats) ==
  [i \in 1..Len(rows) |-> BudgetExpenseOut(rows[i], None)]

expenses_out(rows, cats) ==
  LET names == category_names({rows[i] : i \in 1..Len(rows)}, cats)
  IN [i \in 1..Len(rows) |->
        BudgetExpenseOut(rows[i],
          IF rows[i].category_id # None /\ rows[i].category_id[1] \in DOMAIN names
          THEN Some(names[rows[i].category_id[1]]) ELSE None)]

(* Mutant of list_budget_expenses: the trip is not looked up. *)
list_budget_expenses_unchecked(trip_id) ==
  /\ \E rows \in OrderByCreatedDesc(OwnedBy(expenses, trip_id)) :
       resp' = Response("list_budget_expenses", trip_id, None, 200,
                        expenses_out(rows, categories))
  /\ UNCHANGED <<store, seq>>

list_budget_expenses(trip_id) ==
  /\ IF ~TripExists(trip_id)
     THEN resp' = TripNotFound("list_budget_expenses", trip_id)
     ELSE \E rows \in OrderByCreatedDesc(OwnedBy(expenses, trip_id)) :
            resp' = Looked(Response("list_budget_expenses", trip_id, None, 200,
                                    expenses_out(rows, categories)),
                           category_queries(rows))
  /\ UNCHANGED <<store, seq>>

(* Mutant of delete_budget_expense: the expense's trip is not compared. *)
delete_budget_expense_any_trip(trip_id, expense_id) ==
  LET found == db_get(expenses, expense_id)
  IN IF ~TripExists(trip_id)
     THEN /\ resp' = TripNotFound("delete_budget_expense", trip_id)
          /\ UNCHANGED <<store, seq>>
     ELSE IF found = None
     THEN /\ resp' = Response("delete_budget_expense", trip_id, expense_id, 404,
                              "Expense not found")
          /\ UNCHANGED <<store, seq>>
     ELSE /\ expenses' = expenses \ {found[1]}
          /\ resp' = Response("delete_budget_expense", trip_id, expense_id, 200,
                              "Expense deleted")
          /\ UNCHANGED <<users, trips, destinations, days, accommodations,
                         activities, notes, categories, seq>>

delete_budget_expense(trip_id, expense_id) ==
  LET found == db_get(expenses, expense_id)
  IN IF ~TripExists(trip_id)
     THEN /\ resp' = TripNotFound("delete_budget_expense", trip_id)
          /\ UNCHANGED <<store, seq>>
     ELSE IF ~owned_by_trip(found, trip_id)
     THEN /\ resp' = Response("delete_budget_expense", trip_id, expense_id, 404,
                              "Expense not found")
          /\ UNCHANGED <<store, seq>>
     ELSE /\ expenses' = expenses \ {found[1]}
          /\ resp' = Response("delete_budget_expense", trip_id, expense_id, 200,
                              "Expense deleted")
          /\ UNCHANGED <<users, trips, destinations, days, accommodations,
                         activities, notes, categories, seq>>

----------------------------------------------------------------------------
(* Budget summary. *)

(* Mutant of left_join_expenses: an inner join. *)
inner_join_expenses(cats, exps) ==
  {[cat |-> p[1], exp |-> Some(p[2])] :
     p \in {q \in cats \X exps : q[2].category_id = Some(q[1].id)}}

(* budget_categories LEFT OUTER JOIN budget_expenses ON category_id = id:  *)
(* one row per matching pair, and one row with a NULL expense for every    *)
(* category that matches none.                                             *)
left_join_expenses(cats, exps) ==
  {[cat |-> p[1], exp |-> Some(p[2])] :
     p \in {q \in cats \X exps : q[2].category_id = Some(q[1].id)}}
  \cup {[cat |-> c, exp |-> None] :
          c \in {x \in cats : ~\E e \in exps : e.category_id = Some(x.id)}}

(* WHERE trip_id = :trip_id GROUP BY category: COALESCE(SUM(amount), 0). *)
category_actuals(trip_id, cats, exps) ==
  LET joined == {r \in left_join_expenses(cats, exps) : r.cat.trip_id = trip_id}
      matched(c) == {r.exp[1] : r \in {x \in joined : x.cat = c /\ x.exp # None}}
  IN {[id |-> c.id, name |-> c.name, planned_amount |-> c.planned_amount,
       actual_amount |-> sa_func_coalesce(sa_func_sum(matched(c), "amount"), 0),
       created_at |-> c.created_at] : c \in {r.cat : r \in joined}}

BudgetCategorySummary(r) ==
  [id |-> r.id, name |-> r.name, planned_amount |-> r.planned_amount,
   actual_amount |-> r.actual_amount,
   remaining_amount |-> r.planned_amount - r.actual_amount]

(* Mutant of BudgetTotals: actual_total counts categorized expenses only. *)
BudgetTotals_categorized(trip_id, cats, exps) ==
  LET planned_total ==
        sa_func_coalesce(sa_func_sum(OwnedBy(cats, trip_id), "planned_amount"), 0)
      actual_total ==
        sa_func_coalesce(
          sa_func_sum({e \in OwnedBy(exps, trip_id) : e.category_id # None}, "amount"), 0)
  IN [planned_total |-> planned_total, actual_total |-> actual_total,
      remaining_total |-> planned_total - actual_total]

(* Mutant of BudgetTotals: remaining_total never goes below zero. *)
BudgetTotals_clamped(trip_id, cats, exps) ==
  LET planned_total ==
        sa_func_coalesce(sa_func_sum(OwnedBy(cats, trip_id), "planned_amount"), 0)
      actual_total ==
        sa_func_coalesce(sa_func_sum(OwnedBy(exps, trip_id), "amount"), 0)
  IN [planned_total |-> planned_total, actual_total |-> actual_total,
      remaining_total |-> IF planned_total < actual_total THEN 0
                          ELSE planned_total - actual_total]

(* Mutant of BudgetTotals: the sums are not restricted to the trip. *)
BudgetTotals_all_trips(trip_id, cats, exps) ==
  LET planned_total == sa_func_coalesce(sa_func_sum(cats, "planned_amount"), 0)
      actual_total == sa_func_coalesce(sa_func_sum(exps, "amount"), 0)
  IN [planned_total |-> planned_total, actual_total |-> actual_total,
      remaining_total |-> planned_total - actual_total]

BudgetTotals(trip_id, cats, exps) ==
  LET planned_total ==
        sa_func_coalesce(sa_func_sum(OwnedBy(cats, trip_id), "planned_amount"), 0)
      actual_total ==
        sa_func_coalesce(sa_func_sum(OwnedBy(exps, trip_id), "amount"), 0)
  IN [planned_total |-> planned_total, actual_total |-> actual_total,
      remaining_total |-> planned_total - actual_total]

BudgetSummaryOut(trip_id, rows) ==
  [trip_id |-> trip_id,
   totals |-> BudgetTotals(trip_id, categories, expenses),
   by_category |-> [i \in 1..Len(rows) |-> BudgetCategorySummary(rows[i])]]

(* Mutant of get_budget_summary: the join query has no ORDER BY. *)
get_budget_summary_unordered(trip_id) ==
  /\ IF ~TripExists(trip_id)
     THEN resp' = TripNotFound("get_budget_summary", trip_id)
     ELSE \E rows \in Enumerations(category_actuals(trip_id, categories, expenses)) :
            resp' = Response("get_budget_summary", trip_id, None, 200,
                             BudgetSummaryOut(trip_id, rows))
  /\ UNCHANGED <<store, seq>>

get_budget_summary(trip_id) ==
  /\ IF ~TripExists(trip_id)
     THEN resp' = TripNotFound("get_budget_summary", trip_id)
     ELSE \E rows \in OrderByCreatedAsc(category_actuals(trip_id, categories, expenses)) :
            resp' = Response("get_budget_summary", trip_id, None, 200,
                             BudgetSummaryOut(trip_id, rows))
  /\ UNCHANGED <<store, seq>>

----------------------------------------------------------------------------
(* Requests. *)

(* Path ids: every id allocated so far and one that never was. *)
TripIdArgs == 1..(seq.trips + 1)
CategoryIdArgs == 1..(seq.categories + 1)
ExpenseIdArgs == 1..(seq.expenses + 1)

OptionalOf(ids) == {None} \cup {Some(i) : i \in ids}

UserCreate(emails) == [email : emails]
TripCreate(dates, codes) ==
  [user_id : 1..(seq.users + 1), name : TripNames, start_date : dates,
   end_date : {None}, currency_code : codes]
DestinationCreate == [sort_order : {0, 1}]
DayCreate == [day_date : {1, 2}]
AccommodationCreate == [destination_id : OptionalOf(1..(seq.destinations + 1))]
ActivityCreate == [destination_id : OptionalOf(1..(seq.destinations + 1)),
                   day_id : OptionalOf(1..(seq.days + 1))]
NoteCreate == [destination_id : OptionalOf(1..(seq.destinations + 1)),
               day_id : OptionalOf(1..(seq.days + 1))]
BudgetCategoryCreate(planned) ==
  [name : CategoryNames, planned_amount : planned, color : {None}]
BudgetCategoryUpdate(names, planned) ==
  {[name |-> Some(n)] : n \in names}
  \cup {[planned_amount |-> Some(a)] : a \in planned}
  \cup {[name |-> None], [planned_amount |-> None]}
(* A PATCH body: the fields sent, each with Some(value) or None (null). *)
TripUpdate(names, dates, codes) ==
  {[name |-> Some(n)] : n \in names}
  \cup {[start_date |-> d] : d \in dates}
  \cup {[name |-> Some(n), end_date |-> d] : n \in names, d \in dates}
  \cup {[currency_code |-> Some(c)] : c \in codes}
BudgetCategoryColorUpdate(planned, colors) ==
  {[color |-> c] : c \in colors}
  \cup {[planned_amount |-> Some(a), color |-> c] : a \in planned, c \in colors}
BudgetExpenseCreate(amounts, codes) ==
  [category_id : OptionalOf(CategoryIdArgs), amount : amounts, currency_code : codes]

(* The response goes to the caller and the request's session is closed;  *)
(* the next request is served after that.                               *)
respond ==
  /\ ~Idle
  /\ resp' = NoResponse
  /\ before' = None
  /\ UNCHANGED <<store, seq, sessions>>

(* The budget tracker, used by one account: trips, categories, expenses *)
(* and the summary.                                                     *)
BudgetRows == seq.trips + seq.categories + seq.expenses

Next ==
  \/ \E p \in UserCreate({"alex@example.com"}) : Request /\ users = {} /\ create_user(p)
  \/ \E p \in TripCreate({None}, {None}) :
       Request /\ BudgetRows < MaxBudgetRows
       /\ request_body("create_trip", 0, p, TripCreate_validate(p),
                       create_trip(TripCreate_validate(p)[1]))
  \/ \E t \in TripIdArgs : Request /\ get_trip(t)
  \/ \E t \in TripIdArgs : Request /\ delete_trip(t)
  \/ \E t \in TripIdArgs, p \in BudgetCategoryCreate(PlannedAmounts) :
       Request /\ BudgetRows < MaxBudgetRows /\ create_budget_category(t, p)
  \/ \E t \in TripIdArgs : Request /\ list_budget_categories(t)
  \/ \E t \in TripIdArgs, c \in CategoryIdArgs, p \in BudgetCategoryUpdate(CategoryNames, PlannedAmounts) :
       Request /\ update_budget_category(t, c, p)
  \/ \E t \in TripIdArgs, c \in CategoryIdArgs : Request /\ delete_budget_category(t, c)
  \/ \E t \in TripIdArgs, p \in BudgetExpenseCreate(ExpenseAmounts, {None}) :
       Request /\ BudgetRows < MaxBudgetRows
       /\ request_body("create_budget_expense", t, p, BudgetExpenseCreate_validate(p),
                       create_budget_expense(t, BudgetExpenseCreate_validate(p)[1]))
  \/ \E t \in TripIdArgs : Request /\ list_budget_expenses(t)
  \/ \E t \in TripIdArgs, e \in ExpenseIdArgs : Request /\ delete_budget_expense(t, e)
  \/ \E t \in TripIdArgs : Request /\ get_budget_summary(t)
  \/ respond

Spec == Init /\ [][Next]_vars

(* The whole service: every handler. *)
AllRows == seq.users + seq.trips + seq.destinations + seq.days + seq.accommodations
           + seq.activities + seq.notes + seq.categories + seq.expenses

NextAll ==
  \/ \E p \in UserCreate(Emails) : Request /\ AllRows < MaxRows /\ create_user(p)
  \/ \E p \in TripCreate({None}, {None}) :
       Request /\ AllRows < MaxRows
       /\ request_body("create_trip", 0, p, TripCreate_validate(p),
                       create_trip(TripCreate_validate(p)[1]))
  \/ \E u \in OptionalOf(1..seq.users) : Request /\ list_trips(u)
  \/ \E t \in TripIdArgs : Request /\ get_trip(t)
  \/ \E t \in TripIdArgs : Request /\ delete_trip(t)
  \/ \E t \in TripIdArgs, p \in DestinationCreate :
       Request /\ AllRows < MaxRows /\ add_destination(t, p)
  \/ \E t \in TripIdArgs : Request /\ list_destinations(t)
  \/ \E t \in TripIdArgs, p \in DayCreate :
       Request /\ AllRows < MaxRows /\ create_itinerary_day(t, p)
  \/ \E t \in TripIdArgs : Request /\ list_itinerary_days(t)
  \/ \E t \in TripIdArgs, p \in AccommodationCreate :
       Request /\ AllRows < MaxRows /\ create_accommodation(t, p)
  \/ \E t \in TripIdArgs : Request /\ list_accommodations(t)
  \/ \E t \in TripIdArgs, p \in ActivityCreate :
       Request /\ AllRows < MaxRows /\ create_activity(t, p)
  \/ \E t \in TripIdArgs : Request /\ list_activities(t)
  \/ \E t \in TripIdArgs, p \in NoteCreate :
       Request /\ AllRows < MaxRows /\ create_note(t, p)
  \/ \E t \in TripIdArgs : Request /\ list_notes(t)
  \/ \E t \in TripIdArgs, p \in BudgetCategoryCreate({0}) :
       Request /\ AllRows < MaxRows /\ create_budget_category(t, p)
  \/ \E t \in TripIdArgs : Request /\ list_budget_categories(t)
  \/ \E t \in TripIdArgs, c \in CategoryIdArgs, p \in BudgetCategoryUpdate(CategoryNames \cup {"Transport"}, {}) :
       Request /\ update_budget_category(t, c, p)
  \/ \E t \in TripIdArgs, c \in CategoryIdArgs : Request /\ delete_budget_category(t, c)
  \/ \E t \in TripIdArgs, p \in BudgetExpenseCreate({3000}, {None}) :
       Request /\ AllRows < MaxRows
       /\ request_body("create_budget_expense", t, p, BudgetExpenseCreate_validate(p),
                       create_budget_expense(t, BudgetExpenseCreate_validate(p)[1]))
  \/ \E t \in TripIdArgs : Request /\ list_budget_expenses(t)
  \/ \E t \in TripIdArgs, e \in ExpenseIdArgs : Request /\ delete_budget_expense(t, e)
  \/ \E t \in TripIdArgs : Request /\ get_budget_summary(t)
  \/ respond

SpecAll == Init /\ [][NextAll]_vars

(* The input boundary: what is sent, what is validated, what is stored. *)
InputRows == seq.trips + seq.categories + seq.expenses

NextInput ==
  \/ \E p \in UserCreate({"alex@example.com"}) : Request /\ users = {} /\ create_user(p)
  \/ \E p \in TripCreate({None, Some(1)}, OptionalOf(CurrencyCodes)) :
       Request /\ InputRows < MaxInputRows
       /\ request_body("create_trip", 0, p, TripCreate_validate(p),
                       create_trip(TripCreate_validate(p)[1]))
  \/ \E t \in TripIdArgs : Request /\ get_trip(t)
  \/ \E t \in TripIdArgs, p \in TripUpdate({"Kyoto"}, {None, Some(2)}, CurrencyCodes) :
       Request
       /\ request_body("update_trip", t, p, TripUpdate_validate(p),
                       update_trip(t, TripUpdate_validate(p)[1]))
  \/ \E t \in TripIdArgs, p \in BudgetCategoryCreate({0}) :
       Request /\ InputRows < MaxInputRows /\ create_budget_category(t, p)
  \/ \E t \in TripIdArgs, c \in CategoryIdArgs,
        p \in BudgetCategoryUpdate(CategoryNames, {6000})
               \cup BudgetCategoryColorUpdate({6000}, OptionalOf(Colors)) :
       Request /\ update_budget_category(t, c, p)
  \/ \E t \in TripIdArgs,
        p \in BudgetExpenseCreate({3000, 0, -500}, OptionalOf(CurrencyCodes)) :
       Request /\ InputRows < MaxInputRows
       /\ request_body("create_budget_expense", t, p, BudgetExpenseCreate_validate(p),
                       create_budget_expense(t, BudgetExpenseCreate_validate(p)[1]))
  \/ \E t \in TripIdArgs : Request /\ list_budget_expenses(t)
  \/ respond

SpecInput == Init /\ [][NextInput]_vars

(* Two create_budget_category requests served step by step, among        *)
(* requests that create and delete trips.                                *)
ConcurrentRows == seq.trips + seq.categories

NextConcurrent ==
  \/ \E p \in UserCreate({"alex@example.com"}) : Request /\ users = {} /\ create_user(p)
  \/ \E p \in TripCreate({None}, {None}) :
       Request /\ ConcurrentRows < MaxConcurrentRows
       /\ request_body("create_trip", 0, p, TripCreate_validate(p),
                       create_trip(TripCreate_validate(p)[1]))
  \/ \E t \in TripIdArgs : Request /\ delete_trip(t)
  \/ \E s \in Sessions, t \in TripIdArgs, p \in BudgetCategoryCreate(PlannedAmounts) :
       ConcurrentRows < MaxConcurrentRows /\ create_budget_category_check(s, t, p)
  \/ \E s \in Sessions : create_budget_category_commit(s)
  \/ \E s \in Sessions : session_close(s)
  \/ respond

SpecConcurrent == Init /\ [][NextConcurrent]_vars

(* Child-creating requests in flight together with delete_trip. *)
RaceRows == seq.trips + seq.destinations + seq.categories

NextRace ==
  \/ \E p \in UserCreate({"alex@example.com"}) : Request /\ users = {} /\ create_user(p)
  \/ \E p \in TripCreate({None}, {None}) :
       Request /\ RaceRows < MaxRaceRows
       /\ request_body("create_trip", 0, p, TripCreate_validate(p),
                       create_trip(TripCreate_validate(p)[1]))
  \/ \E s \in Sessions, t \in TripIdArgs, p \in DestinationCreate :
       RaceRows < MaxRaceRows /\ add_destination_check(s, t, p)
  \/ \E s \in Sessions : add_destination_commit(s)
  \/ \E s \in Sessions, t \in TripIdArgs, p \in BudgetCategoryCreate({0}) :
       RaceRows < MaxRaceRows /\ create_budget_category_check(s, t, p)
  \/ \E s \in Sessions : create_budget_category_commit(s)
  \/ \E s \in Sessions, t \in TripIdArgs : delete_trip_check(s, t)
  \/ \E s \in Sessions : delete_trip_commit(s)
  \/ \E s \in Sessions : session_close(s)
  \/ respond

SpecRace == Init /\ [][NextRace]_vars

----------------------------------------------------------------------------
(* The store as the request being served found it. *)

before_users == before[1]
before_trips == before[2]
before_destinations == before[3]
before_days == before[4]
before_accommodations == before[5]
before_activities == before[6]
before_notes == before[7]
before_categories == before[8]
before_expenses == before[9]

Served(op) == resp.op = op /\ resp.status = 200

(* The trip-scoped tables. *)
ChildTables == <<destinations, days, accommodations, activities, notes,
                 categories, expenses>>
before_ChildTables == <<before_destinations, before_days, before_accommodations,
                        before_activities, before_notes, before_categories,
                        before_expenses>>

----------------------------------------------------------------------------
(* C1: the summary of an existing trip has exactly one by_category entry   *)
(* per category of the trip, categories without expenses included; each    *)
(* entry's actual_amount is the sum of the amounts of the expenses linked  *)
(* to the category (0 when none) and its remaining_amount is planned minus *)
(* actual.                                                                 *)
C1_ByCategoryExact ==
  (resp.op = "get_budget_summary" /\ \E t \in trips : t.id = resp.trip_id) =>
    /\ resp.status = 200
    /\ LET by_category == resp.body.by_category
           cats == {c \in categories : c.trip_id = resp.trip_id}
       IN /\ Len(by_category) = Cardinality(cats)
          /\ \A c \in cats : \E i \in 1..Len(by_category) :
               LET linked == {e \in expenses : e.category_id = Some(c.id)}
               IN /\ by_category[i].id = c.id
                  /\ by_category[i].name = c.name
                  /\ by_category[i].planned_amount = c.planned_amount
                  /\ by_category[i].actual_amount = SumOf(linked, "amount")
                  /\ by_category[i].remaining_amount
                       = c.planned_amount - SumOf(linked, "amount")

(* A summary with a category that has no expense and one that has two. *)
C1_Witness ==
  /\ Served("get_budget_summary")
  /\ \E i, j \in 1..Len(resp.body.by_category) :
       /\ resp.body.by_category[i].actual_amount = 0
       /\ resp.body.by_category[i].remaining_amount = 6000
       /\ resp.body.by_category[j].actual_amount = 8000
       /\ Cardinality({e \in expenses :
                         e.category_id = Some(resp.body.by_category[j].id)}) = 2

(* C2: actual_total is the sum of the amounts of all expenses of the trip, *)
(* categorized or not (0 when there are none).                             *)
C2_ActualTotal ==
  (resp.op = "get_budget_summary" /\ \E t \in trips : t.id = resp.trip_id) =>
    /\ resp.status = 200
    /\ resp.body.totals.actual_total
         = SumOf({e \in expenses : e.trip_id = resp.trip_id}, "amount")

(* A summary of a trip with a categorized expense and an expense without *)
(* category.                                                             *)
C2_Witness ==
  /\ Served("get_budget_summary")
  /\ \E e, f \in expenses :
       /\ e.trip_id = resp.trip_id /\ f.trip_id = resp.trip_id
       /\ e.category_id # None /\ f.category_id = None
       /\ resp.body.totals.actual_total = e.amount + f.amount

(* C3: planned_total is the sum of planned_amount over the trip's          *)
(* categories (0 when none), remaining_total is planned_total minus        *)
(* actual_total, and an overspent trip still gets its summary, with a      *)
(* negative remaining_total.                                               *)
C3_PlannedAndRemaining ==
  (resp.op = "get_budget_summary" /\ \E t \in trips : t.id = resp.trip_id) =>
    LET cats == {c \in categories : c.trip_id = resp.trip_id}
        exps == {e \in expenses : e.trip_id = resp.trip_id}
    IN /\ resp.status = 200
       /\ resp.body.totals.planned_total = SumOf(cats, "planned_amount")
       /\ resp.body.totals.remaining_total
            = SumOf(cats, "planned_amount") - SumOf(exps, "amount")
       /\ (cats = {} /\ exps = {}) =>
            /\ resp.body.totals = [planned_total |-> 0, actual_total |-> 0,
                                   remaining_total |-> 0]
            /\ resp.body.by_category = <<>>

(* A summary of a trip that spent more than it planned. *)
C3_Witness ==
  /\ Served("get_budget_summary")
  /\ resp.body.totals.planned_total = 6000
  /\ resp.body.totals.actual_total = 8000
  /\ resp.body.totals.remaining_total = -2000

(* C4: deleting a category deletes no expense; the expenses linked to it  *)
(* keep every other field, have category_id null, and list_budget_expenses *)
(* returns them with category_name null.                                   *)
C4_DeleteCategoryKeepsExpenses ==
  /\ Served("delete_budget_category") =>
       LET linked == {e \in before_expenses : e.category_id = Some(resp.arg)}
       IN /\ {e.id : e \in expenses} = {e.id : e \in before_expenses}
          /\ \A e \in before_expenses \ linked : e \in expenses
          /\ \A e \in linked :
               /\ [e EXCEPT !.category_id = None] \in expenses
               /\ \A rows \in OrderByCreatedDesc({x \in expenses : x.trip_id = e.trip_id}) :
                    \E i \in 1..Len(rows) :
                      LET out == expenses_out(rows, categories)[i]
                      IN /\ out.id = e.id /\ out.amount = e.amount
                         /\ out.category_id = None /\ out.category_name = None
  /\ Served("list_budget_expenses") =>
       \A i \in 1..Len(resp.body) :
         resp.body[i].category_id = None => resp.body[i].category_name = None

(* A category with a linked expense has just been deleted. *)
C4_Witness ==
  /\ Served("delete_budget_category")
  /\ \E e \in before_expenses :
       /\ e.category_id = Some(resp.arg)
       /\ [e EXCEPT !.category_id = None] \in expenses

(* C10: on an existing trip, create_budget_expense with a category_id that *)
(* names no category, or a category of another trip, returns 404 Category  *)
(* not found and persists nothing; with no category_id, or one of the      *)
(* trip's categories, it persists exactly one new expense.                 *)
C10_ExpenseCategoryChecked ==
  (resp.op = "create_budget_expense" /\ \E t \in before_trips : t.id = resp.trip_id) =>
    LET ref == resp.arg.category_id
        mine == {c \in before_categories : c.trip_id = resp.trip_id}
    IN IF ref # None /\ ~\E c \in mine : c.id = ref[1]
       THEN /\ resp.status = 404 /\ resp.body = "Category not found"
            /\ store = before
       ELSE /\ resp.status = 201
            /\ before_expenses \subseteq expenses
            /\ \E e \in expenses \ before_expenses :
                 /\ expenses = before_expenses \cup {e}
                 /\ e.trip_id = resp.trip_id /\ e.category_id = ref
                 /\ e.amount = resp.arg.amount /\ e.id = resp.body.id
            /\ <<users, trips, destinations, days, accommodations, activities,
                 notes, categories>>
               = <<before_users, before_trips, before_destinations, before_days,
                   before_accommodations, before_activities, before_notes,
                   before_categories>>

(* An expense was refused because its category belongs to another trip. *)
C10_Witness ==
  /\ resp.op = "create_budget_expense" /\ resp.status = 404
  /\ resp.body = "Category not found"
  /\ \E c \in categories : Some(c.id) = resp.arg.category_id /\ c.trip_id # resp.trip_id
  /\ \E t \in trips : t.id = resp.trip_id

----------------------------------------------------------------------------
(* The whole service. *)

ListOps == {"list_destinations", "list_itinerary_days", "list_accommodations",
            "list_activities", "list_notes", "list_budget_categories",
            "list_budget_expenses"}

(* A trip that was created and is no longer stored. *)
Deleted(trip_id) == trip_id \in 1..seq.trips /\ ~\E t \in trips : t.id = trip_id

(* C5: after a successful delete_trip(T) no destination, day,              *)
(* accommodation, activity, note, category or expense of T remains, and    *)
(* the rows of other trips are as they were.                               *)
C5_DeleteTripTouchesOnlyItsRows ==
  Served("delete_trip") =>
    /\ \A i \in 1..7 : \A r \in ChildTables[i] : r.trip_id # resp.trip_id
    /\ \A i \in 1..7 :
         ChildTables[i] = {r \in before_ChildTables[i] : r.trip_id # resp.trip_id}
    /\ trips = {t \in before_trips : t.id # resp.trip_id}
    /\ users = before_users

(* C6, as claimed: after delete_trip(T) every list call for T returns an   *)
(* empty list and get_trip(T) returns NotFound.                            *)
C6_ListsEmptyAfterDelete ==
  /\ (resp.op \in ListOps /\ Deleted(resp.trip_id)) =>
       (resp.status = 200 /\ resp.body = <<>>)
  /\ (resp.op = "get_trip" /\ Deleted(resp.trip_id)) => resp.status = 404

(* C6, amended: after delete_trip(T) no row of T remains in any table, and *)
(* every list call for T, like get_trip(T), returns 404 Trip not found.    *)
C6_NotFoundAfterDelete ==
  /\ \A t \in 1..seq.trips : Deleted(t) =>
       \A i \in 1..7 : \A r \in ChildTables[i] : r.trip_id # t
  /\ (resp.op \in ListOps \cup {"get_trip"} /\ Deleted(resp.trip_id)) =>
       (resp.status = 404 /\ resp.body = "Trip not found")

(* The expenses of the only trip ever created are listed after the trip,  *)
(* which had an expense, was deleted.                                      *)
C6_Witness ==
  /\ resp.op = "list_budget_expenses" /\ resp.status = 404
  /\ seq.trips = 1 /\ Deleted(resp.trip_id)
  /\ seq.expenses > 0 /\ expenses = {}

(* C7: no two users share an email, no two days of a trip share a          *)
(* day_date, no two categories of a trip share a name.                     *)
C7_Uniqueness ==
  /\ \A a, b \in users : a.id # b.id => a.email # b.email
  /\ \A a, b \in days :
       (a.id # b.id /\ a.trip_id = b.trip_id) => a.day_date # b.day_date
  /\ \A a, b \in categories :
       (a.id # b.id /\ a.trip_id = b.trip_id) => a.name # b.name

(* A category was renamed in a trip that has another category. *)
C7_Witness ==
  /\ Served("update_budget_category")
  /\ \E c \in before_categories :
       /\ c.id = resp.arg.category_id /\ c.name # resp.body.name
       /\ \E d \in categories : d.id # c.id /\ d.trip_id = c.trip_id

(* C8: a write that would break a uniqueness constraint returns 409, and   *)
(* a request that returns 409 leaves the store as it found it.             *)
C8_ConflictLeavesStore ==
  /\ resp.status = 409 => store = before
  /\ (resp.op = "create_user"
      /\ \E u \in before_users : u.email = resp.arg.email) => resp.status = 409
  /\ (resp.op = "create_itinerary_day"
      /\ \E t \in before_trips : t.id = resp.trip_id) =>
       ((\E d \in before_days :
           d.trip_id = resp.trip_id /\ d.day_date = resp.arg.day_date)
        => resp.status = 409)
  /\ (resp.op = "create_budget_category"
      /\ \E t \in before_trips : t.id = resp.trip_id) =>
       ((\E c \in before_categories :
           c.trip_id = resp.trip_id /\ c.name = resp.arg.name)
        => resp.status = 409)
  /\ (resp.op = "update_budget_category"
      /\ (\E t \in before_trips : t.id = resp.trip_id)
      /\ \E c \in before_categories :
           c.id = resp.arg.category_id /\ c.trip_id = resp.trip_id) =>
       (("name" \in DOMAIN resp.arg.data
         /\ \E c \in before_categories :
              /\ c.id # resp.arg.category_id /\ c.trip_id = resp.trip_id
              /\ Some(c.name) = resp.arg.data.name)
        => resp.status = 409)

(* A rename to the name of another category of the trip was refused. *)
C8_Witness ==
  /\ resp.op = "update_budget_category" /\ resp.status = 409
  /\ \E c \in categories :
       /\ c.id # resp.arg.category_id /\ c.trip_id = resp.trip_id
       /\ Some(c.name) = resp.arg.data.name
  /\ store = before

TripScopedOps ==
  ListOps \cup {"add_destination", "create_itinerary_day", "create_accommodation",
                "create_activity", "create_note", "create_budget_category",
                "create_budget_expense", "update_budget_category",
                "delete_budget_category", "delete_budget_expense",
                "get_budget_summary"}

(* C9: a trip-scoped operation on a trip id that names no trip returns 404 *)
(* Trip not found and leaves the store as it was; no row of a trip-scoped   *)
(* table names a trip that is not stored.                                  *)
C9_MissingTripNotFound ==
  /\ (resp.op \in TripScopedOps /\ ~\E t \in before_trips : t.id = resp.trip_id) =>
       /\ resp.status = 404 /\ resp.body = "Trip not found"
       /\ store = before
  /\ \A i \in 1..7 : \A r \in ChildTables[i] : \E t \in trips : t.id = r.trip_id

(* An expense was sent to a trip that was deleted. *)
C9_Witness ==
  /\ resp.op = "create_budget_expense" /\ resp.status = 404
  /\ resp.body = "Trip not found"
  /\ Deleted(resp.trip_id) /\ store = before

----------------------------------------------------------------------------
(* The input boundary. *)

(* C11: after a successful update_trip or update_budget_category every     *)
(* field sent in the payload holds the value sent, and every field not     *)
(* sent holds the value it had before the call.                            *)
C11_PartialUpdate ==
  /\ Served("update_trip") =>
       LET old == CHOOSE t \in before_trips : t.id = resp.trip_id
           new == CHOOSE t \in trips : t.id = resp.trip_id
           data == resp.arg
       IN /\ IF "name" \in DOMAIN data
             THEN Some(new.name) = data.name ELSE new.name = old.name
          /\ IF "start_date" \in DOMAIN data
             THEN new.start_date = data.start_date ELSE new.start_date = old.start_date
          /\ IF "end_date" \in DOMAIN data
             THEN new.end_date = data.end_date ELSE new.end_date = old.end_date
          /\ IF "currency_code" \in DOMAIN data
             THEN Some(new.currency_code) = data.currency_code
             ELSE new.currency_code = old.currency_code
          /\ new.id = old.id /\ new.user_id = old.user_id
          /\ new.created_at = old.created_at
          /\ resp.body = new
  /\ Served("update_budget_category") =>
       LET old == CHOOSE c \in before_categories : c.id = resp.arg.category_id
           new == CHOOSE c \in categories : c.id = resp.arg.category_id
           data == resp.arg.data
       IN /\ IF "name" \in DOMAIN data
             THEN Some(new.name) = data.name ELSE new.name = old.name
          /\ IF "planned_amount" \in DOMAIN data
             THEN Some(new.planned_amount) = data.planned_amount
             ELSE new.planned_amount = old.planned_amount
          /\ IF "color" \in DOMAIN data
             THEN new.color = data.color ELSE new.color = old.color
          /\ new.id = old.id /\ new.trip_id = old.trip_id
          /\ new.created_at = old.created_at
          /\ resp.body = new

(* C12: an entity that was just created reads back, field for field, as    *)
(* the payload that created it (currency codes in their normalized form). *)
C12_RoundTrip ==
  /\ (resp.op = "create_trip" /\ resp.status = 201) =>
       LET read == db_get(trips, resp.body.id)
       IN /\ read # None
          /\ read[1].user_id = resp.arg.user_id
          /\ read[1].name = resp.arg.name
          /\ read[1].start_date = resp.arg.start_date
          /\ read[1].end_date = resp.arg.end_date
          /\ read[1].currency_code = resp.arg.currency_code
  /\ (resp.op = "create_budget_category" /\ resp.status = 201) =>
       LET read == db_get(categories, resp.body.id)
       IN /\ read # None
          /\ read[1].trip_id = resp.trip_id
          /\ read[1].name = resp.arg.name
          /\ read[1].planned_amount = resp.arg.planned_amount
          /\ read[1].color = resp.arg.color
  /\ (resp.op = "create_budget_expense" /\ resp.status = 201) =>
       LET read == db_get(expenses, resp.body.id)
       IN /\ read # None
          /\ read[1].trip_id = resp.trip_id
          /\ read[1].category_id = resp.arg.category_id
          /\ read[1].amount = resp.arg.amount
          /\ read[1].currency_code = resp.arg.currency_code
  /\ Served("get_trip") => Some(resp.body) = db_get(trips, resp.trip_id)

(* C13: for create_trip, update_trip and create_budget_expense a currency  *)
(* code that is not three letters is refused before the store is touched,  *)
(* and a valid code is stored and returned in upper case.                  *)
C13_CurrencyValidated ==
  /\ resp.status = 422 =>
       /\ resp.op \in {"create_trip", "update_trip", "create_budget_expense"}
       /\ store = before
  /\ (resp.op = "create_trip" /\ resp.status = 201) =>
       LET code == resp.arg.currency_code
       IN /\ Len(code) = 3 /\ str_isalpha(code) /\ str_upper(code) = code
          /\ resp.body.currency_code = code
          /\ db_get(trips, resp.body.id)[1].currency_code = code
  /\ (Served("update_trip") /\ attr(resp.arg, "currency_code") # None) =>
       LET code == resp.arg.currency_code[1]
       IN /\ Len(code) = 3 /\ str_isalpha(code) /\ str_upper(code) = code
          /\ resp.body.currency_code = code
          /\ db_get(trips, resp.trip_id)[1].currency_code = code
  /\ (resp.op = "create_budget_expense" /\ resp.status = 201
      /\ resp.arg.currency_code # None) =>
       LET code == resp.arg.currency_code[1]
       IN /\ Len(code) = 3 /\ str_isalpha(code) /\ str_upper(code) = code
          /\ resp.body.currency_code = Some(code)
          /\ db_get(expenses, resp.body.id)[1].currency_code = Some(code)

(* C20: every stored expense has a positive amount; an expense with a zero *)
(* or negative amount is refused and nothing is stored.                    *)
C20_AmountPositive ==
  /\ \A e \in expenses : e.amount > 0
  /\ (resp.op = "create_budget_expense" /\ resp.arg # None /\ resp.arg.amount <= 0) =>
       (resp.status \notin {200, 201} /\ store = before)

----------------------------------------------------------------------------
(* The budget tracker: names and order. *)

(* C14: every expense returned by create_budget_expense or                 *)
(* list_budget_expenses carries the current name of its category, and a    *)
(* null category_name exactly when it has no category; after a rename the  *)
(* list of the trip's expenses carries the new name.                       *)
C14_CategoryNameCurrent ==
  LET current(out) ==
        IF out.category_id # None /\ \E c \in categories : c.id = out.category_id[1]
        THEN Some((CHOOSE c \in categories : c.id = out.category_id[1]).name)
        ELSE None
  IN /\ (resp.op = "create_budget_expense" /\ resp.status = 201) =>
          resp.body.category_name = current(resp.body)
     /\ Served("list_budget_expenses") =>
          \A i \in 1..Len(resp.body) :
            /\ resp.body[i].category_name = current(resp.body[i])
            /\ resp.body[i].category_name = None <=> resp.body[i].category_id = None
     /\ Served("update_budget_category") =>
          \A rows \in OrderByCreatedDesc(OwnedBy(expenses, resp.trip_id)) :
            \A i \in 1..Len(rows) :
              rows[i].category_id = Some(resp.body.id) =>
                expenses_out(rows, categories)[i].category_name = Some(resp.body.name)

(* A category with an expense linked to it was renamed. *)
C14_Witness ==
  /\ Served("update_budget_category")
  /\ \E c \in before_categories : c.id = resp.body.id /\ c.name # resp.body.name
  /\ \E e \in expenses : e.category_id = Some(resp.body.id)

(* C15: get_budget_summary changes no row, and every summary that a call   *)
(* can return for the trip in this state is the one that was returned.     *)
C15_SummaryPureRead ==
  resp.op = "get_budget_summary" =>
    /\ store = before
    /\ resp.status = 200 =>
         \A rows \in OrderByCreatedAsc(
                       category_actuals(resp.trip_id, categories, expenses)) :
           BudgetSummaryOut(resp.trip_id, rows) = resp.body

(* A summary of a trip with two categories and an expense. *)
C15_Witness ==
  /\ Served("get_budget_summary")
  /\ Len(resp.body.by_category) = 2
  /\ resp.body.totals.actual_total > 0
  /\ store = before

(* C16: by_category is in the order of creation of the categories, the     *)
(* order of list_budget_categories.                                        *)
C16_SummaryOrder ==
  Served("get_budget_summary") =>
    LET by == resp.body.by_category
        created(i) == (CHOOSE c \in categories : c.id = by[i].id).created_at
    IN /\ \A i, j \in 1..Len(by) : i < j => created(i) < created(j)
       /\ \A rows \in OrderByCreatedAsc(OwnedBy(categories, resp.trip_id)) :
            [i \in 1..Len(rows) |-> rows[i].id] = [i \in 1..Len(by) |-> by[i].id]

(* The category created first comes first although its name sorts last    *)
(* and it has the smaller total.                                           *)
C16_Witness ==
  /\ Served("get_budget_summary")
  /\ Len(resp.body.by_category) = 2
  /\ resp.body.by_category[1].id < resp.body.by_category[2].id
  /\ resp.body.by_category[1].name = "Lodging"
  /\ resp.body.by_category[2].name = "Food"
  /\ resp.body.by_category[1].actual_amount < resp.body.by_category[2].actual_amount

----------------------------------------------------------------------------
(* Concurrent requests. *)

(* Two create_budget_category requests raced: when the second made its    *)
(* check the first had made its own and not committed, and both answered. *)
Raced(s1, s2) ==
  /\ s1 # s2
  /\ sessions[s1].pc = "done" /\ sessions[s2].pc = "done"
  /\ s1 \in sessions[s2].peers

(* C17: of two create_budget_category requests with the same name for the  *)
(* same trip that both pass the trip check before either commits, one      *)
(* returns 201 and the other 409, and the trip then holds one category of  *)
(* that name, with the fields of the request that returned 201.            *)
C17_OneWinner ==
  \A s1, s2 \in Sessions :
    (/\ Raced(s1, s2)
     /\ sessions[s1].trip_id = sessions[s2].trip_id
     /\ sessions[s1].payload.name = sessions[s2].payload.name
     /\ sessions[s2].free
     /\ TripExists(sessions[s1].trip_id)) =>
      LET same == {c \in categories : /\ c.trip_id = sessions[s1].trip_id
                                      /\ c.name = sessions[s1].payload.name}
      IN /\ {sessions[s1].status, sessions[s2].status} = {201, 409}
         /\ Cardinality(same) = 1
         /\ \A w \in {s1, s2} :
              sessions[w].status = 201 =>
                /\ same = {sessions[w].body}
                /\ sessions[w].body.planned_amount = sessions[w].payload.planned_amount
                /\ sessions[w].body.color = sessions[w].payload.color

(* Two requests with the same name and different amounts raced; the one   *)
(* that made its check last committed first and won.                      *)
C17_Witness ==
  \E s1, s2 \in Sessions :
    /\ Raced(s1, s2)
    /\ sessions[s1].trip_id = sessions[s2].trip_id
    /\ TripExists(sessions[s1].trip_id)
    /\ sessions[s2].free
    /\ sessions[s1].payload.name = sessions[s2].payload.name
    /\ sessions[s1].payload.planned_amount # sessions[s2].payload.planned_amount
    /\ sessions[s2].status = 201 /\ sessions[s1].status = 409
    /\ sessions[s2].body \in categories

----------------------------------------------------------------------------
(* Failed commits. *)

(* C18: whenever the commit of a write fails, the handler rolls its        *)
(* session back before it is left.                                         *)
C18_FailedCommitRolledBack ==
  resp.commit_failed => resp.rolled_back

(* C19: 409 is returned only for a write that breaks a uniqueness          *)
(* constraint: a user's email, a trip's day_date, a trip's category name.  *)
C19_ConflictOnlyForUniqueness ==
  resp.status = 409 =>
    \/ /\ resp.op = "create_user"
       /\ \E u \in before_users : u.email = resp.arg.email
    \/ /\ resp.op = "create_itinerary_day"
       /\ \E d \in before_days :
            d.trip_id = resp.trip_id /\ d.day_date = resp.arg.day_date
    \/ /\ resp.op = "create_budget_category"
       /\ \E c \in before_categories :
            c.trip_id = resp.trip_id /\ c.name = resp.arg.name
    \/ /\ resp.op = "update_budget_category"
       /\ "name" \in DOMAIN resp.arg.data
       /\ \E c \in before_categories :
            /\ c.id # resp.arg.category_id /\ c.trip_id = resp.trip_id
            /\ Some(c.name) = resp.arg.data.name

----------------------------------------------------------------------------
(* Lists. *)

(* The rows of a list response are exactly the set S, each once. *)
ExactlyOnce(rows, S) == {rows[i] : i \in 1..Len(rows)} = S /\ Len(rows) = Cardinality(S)

(* C21: each list operation for an existing trip T returns exactly the     *)
(* rows of its table with trip_id = T, each once, in the defined order:    *)
(* destinations by sort_order ascending, days by day_date ascending,       *)
(* accommodations and activities newest first, categories oldest first;    *)
(* list_trips with a user_id returns exactly that user's trips, without    *)
(* one all trips, newest first.                                            *)
C21_ListsExactAndOrdered ==
  LET rows == resp.body
      T == resp.trip_id
      ordered(le(_, _)) == \A i, j \in 1..Len(rows) : i < j => le(rows[i], rows[j])
      by_sort_order(a, b) == a.sort_order <= b.sort_order
      by_day_date(a, b) == a.day_date < b.day_date
      newest_first(a, b) == a.created_at > b.created_at
      oldest_first(a, b) == a.created_at < b.created_at
  IN /\ (resp.op \in ListOps /\ \E t \in trips : t.id = T) => resp.status = 200
     /\ Served("list_destinations") =>
          ExactlyOnce(rows, OwnedBy(destinations, T)) /\ ordered(by_sort_order)
     /\ Served("list_itinerary_days") =>
          ExactlyOnce(rows, OwnedBy(days, T)) /\ ordered(by_day_date)
     /\ Served("list_accommodations") =>
          ExactlyOnce(rows, OwnedBy(accommodations, T)) /\ ordered(newest_first)
     /\ Served("list_activities") =>
          ExactlyOnce(rows, OwnedBy(activities, T)) /\ ordered(newest_first)
     /\ Served("list_notes") => ExactlyOnce(rows, OwnedBy(notes, T))
     /\ Served("list_budget_categories") =>
          ExactlyOnce(rows, OwnedBy(categories, T)) /\ ordered(oldest_first)
     /\ Served("list_budget_expenses") =>
          /\ {rows[i].id : i \in 1..Len(rows)} = IdsOf(OwnedBy(expenses, T))
          /\ Len(rows) = Cardinality(OwnedBy(expenses, T))
     /\ Served("list_trips") =>
          /\ ExactlyOnce(rows, IF resp.arg = None THEN trips
                               ELSE {t \in trips : t.user_id = resp.arg[1]})
          /\ ordered(newest_first)

(* A user's two trips are listed, the newer first, while another user      *)
(* owns a trip too.                                                        *)
C21_Witness ==
  /\ Served("list_trips") /\ resp.arg # None
  /\ Len(resp.body) = 2
  /\ resp.body[1].created_at > resp.body[2].created_at
  /\ \E t \in trips : t.user_id # resp.arg[1]

(* C22: list_budget_expenses issues at most one category-name lookup per   *)
(* call, whatever the number of expenses and of distinct categories they   *)
(* name, and none when no returned expense has a category_id.              *)
C22_OneCategoryLookup ==
  Served("list_budget_expenses") =>
    LET named == {resp.body[i].category_id[1] :
                    i \in {j \in 1..Len(resp.body) : resp.body[j].category_id # None}}
    IN /\ Len(resp.lookups) <= 1
       /\ named = {} => resp.lookups = <<>>
       /\ named # {} => resp.lookups = <<named>>

(* Two expenses in two categories were listed with one lookup. *)
C22_Witness ==
  /\ Served("list_budget_expenses")
  /\ Len(resp.body) = 2
  /\ resp.body[1].category_id # None /\ resp.body[2].category_id # None
  /\ resp.body[1].category_id # resp.body[2].category_id
  /\ Len(resp.lookups) = 1

----------------------------------------------------------------------------
(* Isolation of trips. *)

(* The summaries get_budget_summary(trip_id) can return over the given     *)
(* category and expense tables.                                            *)
SummaryOf(trip_id, cats, exps) ==
  {[trip_id |-> trip_id,
    totals |-> BudgetTotals(trip_id, cats, exps),
    by_category |-> [i \in 1..Len(rows) |-> BudgetCategorySummary(rows[i])]] :
     rows \in OrderByCreatedAsc(category_actuals(trip_id, cats, exps))}

(* C23: the summary of a trip T is determined by the categories and        *)
(* expenses whose trip_id is T alone, and an operation addressed to        *)
(* another trip leaves the summary of T as it was.                         *)
C23_SummaryIsolated ==
  /\ Served("get_budget_summary") =>
       SummaryOf(resp.trip_id, OwnedBy(categories, resp.trip_id),
                 OwnedBy(expenses, resp.trip_id)) = {resp.body}
  /\ resp.op # "none" =>
       \A T \in IdsOf(before_trips) \ {resp.trip_id} :
         SummaryOf(T, categories, expenses)
           = SummaryOf(T, before_categories, before_expenses)

(* An expense was added to a category of one trip while another trip has   *)
(* a category of the same name.                                            *)
C23_Witness ==
  /\ resp.op = "create_budget_expense" /\ resp.status = 201
  /\ resp.body.category_name # None
  /\ \E c \in categories :
       c.trip_id # resp.trip_id /\ Some(c.name) = resp.body.category_name

(* C24: in every store state every expense with a category_id refers to a  *)
(* stored category whose trip_id is the expense's trip_id.                 *)
C24_ExpenseCategorySameTrip ==
  \A e \in expenses :
    e.category_id # None =>
      \E c \in categories : c.id = e.category_id[1] /\ c.trip_id = e.trip_id

(* A category with an expense was deleted while another expense of the     *)
(* trip keeps its link to a second category.                               *)
C24_Witness ==
  /\ Served("delete_budget_category")
  /\ \E e \in before_expenses : e.category_id = Some(resp.arg)
  /\ \E e \in expenses :
       /\ e.trip_id = resp.trip_id /\ e.category_id # None
       /\ \E c \in categories : Some(c.id) = e.category_id

(* C25: update_budget_category, delete_budget_category and                 *)
(* delete_budget_expense called through an existing trip T with an id that *)
(* names no row, or a row of another trip, return 404 and leave the store  *)
(* as it was; a row is modified or deleted only through its own trip.      *)
C25_OnlyThroughOwningTrip ==
  LET T == resp.trip_id
      through == \E t \in before_trips : t.id = T
      foreign(table, id) == ~\E r \in table : r.id = id /\ r.trip_id = T
      NotFound(detail) == resp.status = 404 /\ resp.body = detail /\ store = before
      others_kept ==
        /\ \A c \in before_categories : c.trip_id # T => c \in categories
        /\ \A e \in before_expenses : e.trip_id # T => e \in expenses
  IN /\ (resp.op = "update_budget_category" /\ through) =>
          /\ foreign(before_categories, resp.arg.category_id) =>
               NotFound("Category not found")
          /\ others_kept
     /\ (resp.op = "delete_budget_category" /\ through) =>
          /\ foreign(before_categories, resp.arg) => NotFound("Category not found")
          /\ others_kept
     /\ (resp.op = "delete_budget_expense" /\ through) =>
          /\ foreign(before_expenses, resp.arg) => NotFound("Expense not found")
          /\ others_kept

(* An expense of one trip was addressed through another, existing trip,   *)
(* and is still stored.                                                    *)
C25_Witness ==
  /\ resp.op = "delete_budget_expense" /\ resp.status = 404
  /\ resp.body = "Expense not found"
  /\ \E t \in trips : t.id = resp.trip_id
  /\ \E e \in expenses : e.id = resp.arg /\ e.trip_id # resp.trip_id
  /\ store = before

----------------------------------------------------------------------------
(* Child creation against delete_trip. *)

(* C26: however a child-creating request for a trip (trip check, insert,   *)
(* commit) interleaves with a delete_trip of that trip, no committed       *)
(* destination, day, accommodation, activity, note, category or expense    *)
(* names a trip that is not stored, and a request that answered 201 has    *)
(* its row stored for as long as the trip is.                              *)
C26_NoOrphanUnderRace ==
  /\ \A i \in 1..7 : \A r \in ChildTables[i] : \E t \in trips : t.id = r.trip_id
  /\ \A s \in Sessions :
       (sessions[s].pc = "done" /\ sessions[s].status = 201) =>
         (sessions[s].body \in destinations \cup categories
          \/ Deleted(sessions[s].trip_id))

(* A destination passed the trip check, the trip was deleted, and the     *)
(* commit of the destination failed.                                      *)
C26_Witness ==
  \E s \in Sessions :
    /\ sessions[s].pc = "done" /\ sessions[s].status = 500
    /\ sessions[s].body = "IntegrityError"
    /\ Deleted(sessions[s].trip_id)
    /\ \A d \in destinations : d.trip_id # sessions[s].trip_id

====
